---- MODULE Spec2Model ----
(***************************************************************************)
(* Model of src/anon.py: the Anon assistant and the launch() control loop. *)
(*                                                                         *)
(* One iteration of the loop of launch() is three steps:                   *)
(*   ReadCommand   input("> ").strip().lower()            (line 197)       *)
(*   Handle...     anon.handle_command(command)           (line 198)       *)
(*   ExitCheck     if command in [exit, quit, stop] ...   (lines 199-201)  *)
(* The collaborators (classifier, scanner, dialogue pipeline) are calls    *)
(* into libraries; a call either returns a value drawn from a small set or *)
(* raises.  The source has no try/except outside listen(), so a raise      *)
(* leaves launch() and ends the process (pc = "crashed").  speak() hands   *)
(* the message to the engine built in __init__ and is taken to return.     *)
(* Scores are in tenths, so the thresholds 0.4, 0.3, 0.5 are 4, 3, 5.      *)
(* The typographic apostrophes of two canned phrases are written ' here.   *)
(***************************************************************************)
EXTENDS Integers, Sequences, FiniteSets, TLC

VARIABLES
    personality,   \* self.personality                              (line 25)
    chosen,        \* history: the value define_personality returned
    user_memory,   \* self.user_memory, a dict: function on its keys (line 29)
    written,       \* history: last value passed to remember_user per id
    pc,            \* position of launch(): greet/prompt/handle/check/done/crashed
    command,       \* local variable command of launch()            (line 197)
    user_id,       \* local user_id of handle_command     (lines 147, 151)
    prediction,    \* local prediction of make_decision, in tenths  (line 62)
    decision,      \* value returned by make_decision               (line 71)
    response,      \* value returned by respond                     (line 107)
    printed,       \* what print(self.recall_user(..)) printed      (line 152)
    spoken,        \* messages passed to speak() since the command was read
    heard,         \* what listen() returned to the loop in this iteration
    acted,         \* history: the branch of handle_command that was entered
    nread          \* number of commands read so far

vars == <<personality, chosen, user_memory, written, pc, command, user_id,
          prediction, decision, response, printed, spoken, heard, acted,
          nread>>

-----------------------------------------------------------------------------
(* Bounds of the model *)

MaxCommands == 3      \* commands read in one session
MaxScore == 10        \* classifier scores are 0..MaxScore tenths
NumUsers == 2         \* user ids 1..NumUsers
NumValues == 2        \* remembered values 1..NumValues

\* input("Enter user ID: ") and input("Enter data to remember: ") are strings;
\* the sentinel of recall_user is itself a string a user can type
UserIds == {ToString(i) : i \in 1..NumUsers}
Values == {ToString(i) : i \in 1..NumValues} \cup {"No data available"}
Scores == 0..MaxScore

-----------------------------------------------------------------------------
(* Values of the program *)

None == "None"
NotCalled == "NotCalled"
NoCommand == "<no command yet>"
NoUser == "<no user>"
Never == "<never remembered>"

personalities == {"friendly", "aggressive", "neutral", "curious"}

\* thresholds of make_decision, in tenths
AggressiveThreshold == 4
CuriousThreshold == 3
DefaultThreshold == 5

NoDataAvailable == "No data available"
UnknownUtterance == "I'm not sure how to respond to that."
Farewell == "Goodbye!"

ScanPhrases == {"scan network", "scan"}
LearnPhrases == {"learn", "train"}
DecidePhrases == {"make decision", "decision"}
RespondPhrases == {"how are you", "hello"}
PwnPhrases == {"pwn", "attack"}
ConversePhrases == {"converse", "talk"}
RememberPhrases == {"remember", "remember user"}
RecallPhrases == {"recall", "recall user"}
ExitPhrases == {"exit", "quit", "stop"}

KnownPhrases ==
    ScanPhrases \cup LearnPhrases \cup DecidePhrases \cup RespondPhrases
    \cup PwnPhrases \cup ConversePhrases \cup RememberPhrases \cup RecallPhrases

\* the normalized strings a session can produce: every phrase, the empty
\* string and a string no branch matches
Commands == KnownPhrases \cup ExitPhrases \cup {"", "open the pod bay doors"}

\* lines a user may type at the prompt: the normalized strings themselves and
\* lines with capitals and surrounding blanks
TypedLines == Commands \cup {"EXIT", "  Scan Network ", " Hello", "   "}

\* line.strip().lower(), on the typed lines
Normalize(line) ==
    CASE line = "EXIT" -> "exit"
      [] line = "  Scan Network " -> "scan network"
      [] line = " Hello" -> "hello"
      [] line = "   " -> ""
      [] OTHER -> line

responses ==
    [p \in personalities |->
        CASE p = "friendly" ->
               {"I'm here to help!", "At your service!", "Let me assist you."}
          [] p = "aggressive" ->
               {"Let's get things done!", "Time to take control!", "I'm ready to attack."}
          [] p = "neutral" ->
               {"What would you like me to do?", "I'm here.", "Awaiting instructions."}
          [] p = "curious" ->
               {"Tell me more!", "Interesting, let's dig deeper.", "Let's learn together!"}]

\* replies of the dialogue pipeline
Replies == {"reply A", "reply B"}

\* f"{accuracy:.2f}" for accuracy = random.uniform(0.7, 1.0): two samples
Feedbacks ==
    {"Learning completed with an accuracy of 0.70",
     "Learning completed with an accuracy of 1.00"}

Greeting(p) ==
    CASE p = "friendly" -> "Hello, I am Anon, your friendly cybersecurity assistant!"
      [] p = "aggressive" -> "Hello, I am Anon, your aggressive cybersecurity assistant!"
      [] p = "neutral" -> "Hello, I am Anon, your neutral cybersecurity assistant!"
      [] p = "curious" -> "Hello, I am Anon, your curious cybersecurity assistant!"

LearnedUtterance(p) ==
    CASE p = "friendly" -> "I have finished learning and feel friendly."
      [] p = "aggressive" -> "I have finished learning and feel aggressive."
      [] p = "neutral" -> "I have finished learning and feel neutral."
      [] p = "curious" -> "I have finished learning and feel curious."

DecisionUtterance(d) ==
    CASE d = "Attack" -> "I have decided to Attack"
      [] d = "Monitor" -> "I have decided to Monitor"
      [] d = "Analyze" -> "I have decided to Analyze"
      [] d = "Observe" -> "I have decided to Observe"
      [] d = "Ignore" -> "I have decided to Ignore"

-----------------------------------------------------------------------------
(* Pure parts of Anon *)

\* make_decision with >= where the source has >
Decide_NotStrict(s, p) ==
    IF p = "aggressive"
    THEN (IF s >= AggressiveThreshold THEN "Attack" ELSE "Monitor")
    ELSE IF p = "curious"
         THEN (IF s >= CuriousThreshold THEN "Analyze" ELSE "Observe")
         ELSE (IF s >= DefaultThreshold THEN "Monitor" ELSE "Ignore")

\* the decision of make_decision for a prediction (in tenths) and a personality
Decide(s, p) ==
    IF p = "aggressive"
    THEN (IF s > AggressiveThreshold THEN "Attack" ELSE "Monitor")
    ELSE IF p = "curious"
         THEN (IF s > CuriousThreshold THEN "Analyze" ELSE "Observe")
         ELSE (IF s > DefaultThreshold THEN "Monitor" ELSE "Ignore")

\* respond choosing among the phrases of every personality
RespondChoices_AnyList(p) == UNION {responses[q] : q \in personalities}

\* random.choice(responses[self.personality]): the phrases it may return
RespondChoices(p) == responses[p]

\* remember_user as self.user_memory.setdefault(user_id, data)
remember_user_KeepFirst(mem, id, data) ==
    [k \in (DOMAIN mem) \cup {id} |-> IF k \in DOMAIN mem THEN mem[k] ELSE data]

\* self.user_memory[user_id] = data
remember_user(mem, id, data) ==
    [k \in (DOMAIN mem) \cup {id} |-> IF k = id THEN data ELSE mem[k]]

\* self.user_memory.get(user_id, "No data available")
recall_user(mem, id) ==
    IF id \in DOMAIN mem THEN mem[id] ELSE NoDataAvailable

\* speak(message): the engine is asked to say the message
speak(log, message) == Append(log, message)

\* listen(): the recognizer returns text, or raises UnknownValueError or
\* RequestError; both exceptions are caught and None is returned
ListenOutcomes == Commands \cup {"UnknownValueError", "RequestError"}
listen(outcome) ==
    IF outcome \in {"UnknownValueError", "RequestError"} THEN None ELSE outcome

\* handle_command matching only the first phrase of each list
Route_FirstPhraseOnly(c) ==
    IF c = "scan network" THEN "ScanNetwork"
    ELSE IF c = "learn" THEN "Train"
    ELSE IF c = "make decision" THEN "Decide"
    ELSE IF c = "how are you" THEN "Respond"
    ELSE IF c = "pwn" THEN "Pwn"
    ELSE IF c = "converse" THEN "Converse"
    ELSE IF c = "remember" THEN "Remember"
    ELSE IF c = "recall" THEN "Recall"
    ELSE "Unknown"

\* the action handle_command dispatches a command to (its if/elif chain)
Route(c) ==
    IF c \in ScanPhrases THEN "ScanNetwork"
    ELSE IF c \in LearnPhrases THEN "Train"
    ELSE IF c \in DecidePhrases THEN "Decide"
    ELSE IF c \in RespondPhrases THEN "Respond"
    ELSE IF c \in PwnPhrases THEN "Pwn"
    ELSE IF c \in ConversePhrases THEN "Converse"
    ELSE IF c \in RememberPhrases THEN "Remember"
    ELSE IF c \in RecallPhrases THEN "Recall"
    ELSE "Unknown"

-----------------------------------------------------------------------------
(* State after anon = Anon() *)

Init ==
    /\ personality \in personalities
    /\ chosen = personality
    /\ user_memory = <<>>
    /\ written = [k \in UserIds |-> Never]
    /\ pc = "greet"
    /\ command = NoCommand
    /\ user_id = NoUser
    /\ prediction = 0
    /\ decision = None
    /\ response = None
    /\ printed = None
    /\ spoken = <<>>
    /\ heard = NotCalled
    /\ acted = None
    /\ nread = 0

-----------------------------------------------------------------------------
(* launch(): anon.greet() *)

Greet ==
    /\ pc = "greet"
    /\ spoken' = speak(spoken, Greeting(personality))
    /\ pc' = "prompt"
    /\ UNCHANGED <<personality, chosen, user_memory, written, command, user_id,
                   prediction, decision, response, printed, heard, acted, nread>>

(* launch(): command = input("> ").strip().lower().  The loop reads typed   *)
(* input only; it never calls anon.listen().                                *)
ReadCommand ==
    /\ pc = "prompt"
    /\ nread < MaxCommands
    /\ \E line \in TypedLines : command' = Normalize(line)
    /\ heard' = NotCalled
    /\ acted' = None
    /\ nread' = nread + 1
    /\ spoken' = <<>>
    /\ user_id' = NoUser
    /\ prediction' = 0
    /\ decision' = None
    /\ response' = None
    /\ printed' = None
    /\ pc' = "handle"
    /\ UNCHANGED <<personality, chosen, user_memory, written>>

\* an exception raised inside handle_command is caught nowhere
Raise ==
    /\ pc' = "crashed"
    /\ UNCHANGED <<personality, chosen, user_memory, written, command, user_id,
                   prediction, decision, response, printed, spoken, heard, nread>>

(* scan_network() then generate_scan_report(scan_result).  nm.scan may     *)
(* raise; the report indexes every entry of every host as                  *)
(* [proto][port]['state'] and raises when an entry has no such shape.      *)
HandleScan ==
    /\ pc = "handle"
    /\ Route(command) = "ScanNetwork"
    /\ acted' = Route(command)
    /\ \E outcome \in {"scan raises", "report raises", "report printed"} :
          IF outcome = "report printed"
          THEN /\ pc' = "check"
               /\ UNCHANGED <<personality, chosen, user_memory, written, command,
                              user_id, prediction, decision, response, printed,
                              spoken, heard, nread>>
          ELSE Raise

(* learn(data, labels): network.fit, speak, provide_learning_feedback *)
HandleLearn ==
    /\ pc = "handle"
    /\ Route(command) = "Train"
    /\ acted' = Route(command)
    /\ \/ Raise
       \/ /\ \E f \in Feedbacks :
                spoken' = speak(speak(spoken, LearnedUtterance(personality)), f)
          /\ pc' = "check"
          /\ UNCHANGED <<personality, chosen, user_memory, written, command,
                         user_id, prediction, decision, response, printed,
                         heard, nread>>

(* make_decision(test_data): network.predict, threshold, speak *)
HandleDecide ==
    /\ pc = "handle"
    /\ Route(command) = "Decide"
    /\ acted' = Route(command)
    /\ \/ Raise
       \/ /\ \E s \in Scores :
                /\ prediction' = s
                /\ decision' = Decide(s, personality)
                /\ spoken' = speak(spoken, DecisionUtterance(Decide(s, personality)))
          /\ pc' = "check"
          /\ UNCHANGED <<personality, chosen, user_memory, written, command,
                         user_id, response, printed, heard, nread>>

(* respond("How are you?") *)
HandleRespond ==
    /\ pc = "handle"
    /\ Route(command) = "Respond"
    /\ acted' = Route(command)
    /\ \E r \in RespondChoices(personality) :
          /\ response' = r
          /\ spoken' = speak(spoken, r)
    /\ pc' = "check"
    /\ UNCHANGED <<personality, chosen, user_memory, written, command, user_id,
                   prediction, decision, printed, heard, nread>>

\* pwn_network re-drawing the personality
HandlePwn_Redraw ==
    /\ pc = "handle"
    /\ Route(command) = "Pwn"
    /\ acted' = Route(command)
    /\ personality' \in personalities
    /\ pc' = "check"
    /\ UNCHANGED <<chosen, user_memory, written, command, user_id,
                   prediction, decision, response, printed, spoken, heard, nread>>

(* pwn_network(): logs and prints only *)
HandlePwn ==
    /\ pc = "handle"
    /\ Route(command) = "Pwn"
    /\ acted' = Route(command)
    /\ pc' = "check"
    /\ UNCHANGED <<personality, chosen, user_memory, written, command, user_id,
                   prediction, decision, response, printed, spoken, heard, nread>>

(* converse(input("User: ")): conversation_pipeline, speak *)
HandleConverse ==
    /\ pc = "handle"
    /\ Route(command) = "Converse"
    /\ acted' = Route(command)
    /\ \/ Raise
       \/ /\ \E r \in Replies :
                /\ response' = r
                /\ spoken' = speak(spoken, r)
          /\ pc' = "check"
          /\ UNCHANGED <<personality, chosen, user_memory, written, command,
                         user_id, prediction, decision, printed, heard, nread>>

(* remember_user(input("Enter user ID: "), input("Enter data to remember: ")) *)
HandleRemember ==
    /\ pc = "handle"
    /\ Route(command) = "Remember"
    /\ acted' = Route(command)
    /\ \E id \in UserIds, data \in Values :
          /\ user_id' = id
          /\ user_memory' = remember_user(user_memory, id, data)
          /\ written' = [written EXCEPT ![id] = data]
    /\ pc' = "check"
    /\ UNCHANGED <<personality, chosen, command, prediction, decision, response,
                   printed, spoken, heard, nread>>

\* recall through self.user_memory.setdefault(user_id, "No data available")
HandleRecall_Setdefault ==
    /\ pc = "handle"
    /\ Route(command) = "Recall"
    /\ acted' = Route(command)
    /\ \E id \in UserIds :
          /\ user_id' = id
          /\ printed' = recall_user(user_memory, id)
          /\ user_memory' = remember_user_KeepFirst(user_memory, id, NoDataAvailable)
    /\ pc' = "check"
    /\ UNCHANGED <<personality, chosen, written, command,
                   prediction, decision, response, spoken, heard, nread>>

(* print(self.recall_user(input("Enter user ID: "))) *)
HandleRecall ==
    /\ pc = "handle"
    /\ Route(command) = "Recall"
    /\ acted' = Route(command)
    /\ \E id \in UserIds :
          /\ user_id' = id
          /\ printed' = recall_user(user_memory, id)
    /\ pc' = "check"
    /\ UNCHANGED <<personality, chosen, user_memory, written, command,
                   prediction, decision, response, spoken, heard, nread>>

\* handle_command with a silent branch for the exit phrases
HandleUnknown_SilentOnExit ==
    /\ pc = "handle"
    /\ Route(command) = "Unknown"
    /\ acted' = Route(command)
    /\ spoken' = IF command \in ExitPhrases THEN spoken
                 ELSE speak(spoken, UnknownUtterance)
    /\ pc' = "check"
    /\ UNCHANGED <<personality, chosen, user_memory, written, command, user_id,
                   prediction, decision, response, printed, heard, nread>>

(* the else branch: speak("I'm not sure how to respond to that.") *)
HandleUnknown ==
    /\ pc = "handle"
    /\ Route(command) = "Unknown"
    /\ acted' = Route(command)
    /\ spoken' = speak(spoken, UnknownUtterance)
    /\ pc' = "check"
    /\ UNCHANGED <<personality, chosen, user_memory, written, command, user_id,
                   prediction, decision, response, printed, heard, nread>>

\* the exit check without its break
ExitCheck_NoBreak ==
    /\ pc = "check"
    /\ IF command \in ExitPhrases
       THEN spoken' = speak(spoken, Farewell)
       ELSE spoken' = spoken
    /\ pc' = "prompt"
    /\ UNCHANGED <<personality, chosen, user_memory, written, command, user_id,
                   prediction, decision, response, printed, heard, acted, nread>>

(* launch(): if command in ["exit", "quit", "stop"]: speak("Goodbye!"); break *)
ExitCheck ==
    /\ pc = "check"
    /\ IF command \in ExitPhrases
       THEN /\ spoken' = speak(spoken, Farewell)
            /\ pc' = "done"
       ELSE /\ spoken' = spoken
            /\ pc' = "prompt"
    /\ UNCHANGED <<personality, chosen, user_memory, written, command, user_id,
                   prediction, decision, response, printed, heard, acted, nread>>

Next ==
    \/ Greet
    \/ ReadCommand
    \/ HandleScan
    \/ HandleLearn
    \/ HandleDecide
    \/ HandleRespond
    \/ HandlePwn
    \/ HandleConverse
    \/ HandleRemember
    \/ HandleRecall
    \/ HandleUnknown
    \/ ExitCheck

Spec == Init /\ [][Next]_vars

\* launch() is one sequential process: once a command is read, its handler
\* and the exit check that follows it run without waiting for anything
FairSpec ==
    /\ Spec
    /\ WF_vars(HandleUnknown)
    /\ WF_vars(ExitCheck)

-----------------------------------------------------------------------------
(* Properties *)

Count(x, log) == Cardinality({i \in DOMAIN log : log[i] = x})

Handled == pc = "check"

\* C1: the decision make_decision returns is the one of the threshold table
\* for (prediction, personality): aggressive Attack above 0.4 else Monitor,
\* curious Analyze above 0.3 else Observe, friendly and neutral Monitor above
\* 0.5 else Ignore; strictly above, so 0.4 under aggressive gives Monitor, and
\* 0.6 gives Analyze under curious and Monitor under neutral.
C1_DecisionTable ==
    (Handled /\ command \in DecidePhrases) =>
        /\ personality = "aggressive" =>
              decision = (IF prediction > 4 THEN "Attack" ELSE "Monitor")
        /\ personality = "curious" =>
              decision = (IF prediction > 3 THEN "Analyze" ELSE "Observe")
        /\ personality \in {"friendly", "neutral"} =>
              decision = (IF prediction > 5 THEN "Monitor" ELSE "Ignore")
        /\ (personality = "aggressive" /\ prediction = 4) => decision = "Monitor"
        /\ (personality = "curious" /\ prediction = 6) => decision = "Analyze"
        /\ (personality = "neutral" /\ prediction = 6) => decision = "Monitor"
        /\ spoken = <<DecisionUtterance(decision)>>

C1_Witness ==
    /\ Handled
    /\ command = "make decision"
    /\ personality = "aggressive"
    /\ prediction = 4
    /\ decision = "Monitor"

\* C2: once an exit phrase has been read the loop ends: the farewell is
\* spoken exactly once before the end, and no command is read after the
\* exit phrase (the loop never returns to the prompt with it).
C2_ExitEndsLoop ==
    /\ [](pc = "done" => command \in ExitPhrases /\ Count(Farewell, spoken) = 1)
    /\ []((pc = "prompt" /\ nread > 0) => command \notin ExitPhrases)
    /\ \A c \in ExitPhrases :
          (pc = "handle" /\ command = c) ~> (pc = "done" /\ command = c)

C2_Witness ==
    /\ pc = "done"
    /\ command = "quit"
    /\ personality = "curious"
    /\ nread > 1

\* C3: recall_user(id) is the value of the latest remember_user(id, v), and
\* the sentinel "No data available" for an id never remembered; the Recall
\* command prints that value.
C3_RecallLatest ==
    /\ \A id \in UserIds :
          recall_user(user_memory, id) =
              (IF written[id] = Never THEN "No data available" ELSE written[id])
    /\ (Handled /\ command \in RecallPhrases) =>
          printed = (IF written[user_id] = Never THEN "No data available"
                     ELSE written[user_id])

C3_Witness ==
    /\ Handled
    /\ command = "recall"
    /\ nread >= 3
    /\ user_id \in DOMAIN user_memory
    /\ printed = "2"
    /\ \E id \in UserIds : written[id] = Never

\* C4: handle_command enters the branch of the documented phrase, the same
\* branch for both phrases of a pair; any other string enters the else
\* branch, which speaks the fallback utterance, does not raise and changes
\* nothing else.
C4_Dispatch ==
    [][pc = "handle" =>
        /\ pc' \in {"check", "crashed"}
        /\ command \in {"scan network", "scan"} => acted' = "ScanNetwork"
        /\ command \in {"learn", "train"} => acted' = "Train"
        /\ command \in {"make decision", "decision"} => acted' = "Decide"
        /\ command \in {"how are you", "hello"} => acted' = "Respond"
        /\ command \in {"pwn", "attack"} => acted' = "Pwn"
        /\ command \in {"converse", "talk"} => acted' = "Converse"
        /\ command \in {"remember", "remember user"} => acted' = "Remember"
        /\ command \in {"recall", "recall user"} => acted' = "Recall"
        /\ command \notin KnownPhrases =>
              /\ acted' = "Unknown"
              /\ pc' = "check"
              /\ spoken' = <<UnknownUtterance>>
              /\ UNCHANGED <<personality, user_memory, command, user_id,
                             prediction, decision, response, printed, nread>>
    ]_vars

C4_Witness ==
    /\ Handled
    /\ command = "open the pod bay doors"
    /\ acted = "Unknown"
    /\ spoken = <<UnknownUtterance>>

C6_LoopEndsOnlyOnExit ==
    (pc \in {"done", "crashed"}) => (pc = "done" /\ command \in ExitPhrases)

\* C7: the personality is one of the four and is the one chosen at
\* construction, whatever commands have run.
C7_PersonalityFixed ==
    /\ personality \in {"friendly", "aggressive", "neutral", "curious"}
    /\ personality = chosen

C7_Witness ==
    /\ Handled
    /\ nread >= 3
    /\ command \in PwnPhrases
    /\ DOMAIN user_memory # {}

\* C8: respond returns, and speaks, one of the three phrases of the current
\* personality and no phrase of another personality.
C8_ResponseOfPersonality ==
    (Handled /\ command \in RespondPhrases) =>
        /\ response \in responses[personality]
        /\ Cardinality(responses[personality]) = 3
        /\ \A q \in personalities \ {personality} : response \notin responses[q]
        /\ spoken = <<response>>

C8_Witness ==
    /\ Handled
    /\ command = "hello"
    /\ nread >= 2
    /\ personality = "friendly"
    /\ response = "At your service!"

\* C9: when the loop has ended, what was spoken since the exit phrase was
\* read is the fallback utterance and then the farewell.
C9_FallbackThenFarewell ==
    pc = "done" => spoken = <<"I'm not sure how to respond to that.", "Goodbye!">>

C9_Witness ==
    /\ pc = "done"
    /\ command = "stop"
    /\ acted = "Unknown"

\* C10: only the Remember command changes the memory, it changes only the
\* entry of the user id entered, and no user id is ever dropped.
C10_MemoryFrame ==
    [][/\ DOMAIN user_memory \subseteq DOMAIN user_memory'
       /\ ~(pc = "handle" /\ command \in RememberPhrases) =>
             user_memory' = user_memory
       /\ (pc = "handle" /\ command \in RememberPhrases) =>
             /\ DOMAIN user_memory' = DOMAIN user_memory \cup {user_id'}
             /\ \A k \in DOMAIN user_memory \ {user_id'} :
                   user_memory'[k] = user_memory[k]
    ]_vars

C10_Witness ==
    /\ Handled
    /\ command \in RememberPhrases
    /\ Cardinality(DOMAIN user_memory) >= 2
    /\ nread >= 3

====
